---- MODULE Spec2Model ----
(***************************************************************************)
(* Model of the DS1820 1-Wire thermometer library (DS1820.c, DS1820.h).    *)
(*                                                                         *)
(* The OneWire bus driver (OW_* functions) is an external collaborator.    *)
(* Every call into it is recorded in `log` as <<primitive, argument,       *)
(* result>>; what the bus answers (selection result, bytes read, addresses *)
(* found) is an input of each call, drawn from small sets.                 *)
(*                                                                         *)
(* A state is the bus pull-up state plus the record of the last library    *)
(* call: its arguments, the bus activity it caused, and what it handed     *)
(* back to the caller.  `int` is taken to be at least 32 bits wide (the    *)
(* code stores the intermediate in an int32_t); every intermediate of the  *)
(* temperature computation lies within +/- 400000, so no wrap-around can   *)
(* occur and unbounded integers model it exactly.                          *)
(***************************************************************************)
EXTENDS Integers, Sequences, FiniteSets, TLC

VARIABLES
    pullUp,       \* bus power state: "weak" or "strong"
    op,           \* name of the last library call
    iAddress,     \* its iAddress argument
    ret,          \* its return value
    log,          \* bus primitives it invoked, in order
    iSPad,        \* its local scratchpad buffer (<<>> when never filled)
    argHigh,      \* AlarmSet: iHigh argument; AlarmGet: *iHigh before the call
    argLow,       \* AlarmSet: iLow argument;  AlarmGet: *iLow before the call
    iHigh,        \* AlarmGet: *iHigh after the call
    iLow,         \* AlarmGet: *iLow after the call
    iMaxDevices,  \* Search: capacity argument
    Addresses,    \* Search: caller's array after the call
    enumerated,   \* Search: the addresses the bus search had to report
    halted,       \* TRUE once a call trapped instead of returning
    pc,           \* where the code that runs step by step stands
    frame         \* its local variables

vars == <<pullUp, op, iAddress, ret, log, iSPad, argHigh, argLow, iHigh, iLow,
          iMaxDevices, Addresses, enumerated, halted, pc, frame>>

---------------------------------------------------------------------------
(* Program constants *)

DS1820_ADDRESS_ALL == 0
DS1820_OK == 0
DS1820_ERROR == 1
DS1820_TEMP_ERROR == -10000
DS1820_PARASITE_POWER == 16
DS1820_EXTERNAL_POWER == 32

SCRATCHPAD_READ == 190
SCRATCHPAD_STORE == 72
SCRATCHPAD_WRITE == 78
SCRATCHPAD_RECALL == 184
POWER_SUPPLY_READ == 180
CONVERT_T == 68

SCRATCHPAD_LENGTH == 9
SCRATCHPAD_CRC_POS == SCRATCHPAD_LENGTH - 1

\* Results of OW_ROMMatch.  The library tests the result both against
\* OW_NO_DEV (Convert) and for being nonzero (all other calls).
OW_OK == 0
OW_NO_DEV == 1

---------------------------------------------------------------------------
(* Bounds of the model *)

MaxBusDevices == 2   \* devices the bus search can enumerate
MaxCount == 3        \* length of the caller's address array

---------------------------------------------------------------------------
(* Input domains *)

ROMIds == 1..MaxBusDevices
AddressArgs == {DS1820_ADDRESS_ALL, 1}
ROMMatchResults == {OW_OK, OW_NO_DEV}

TempLSBs == {0, 145, 200, 255}
TempMSBs == {0, 1}
\* <<count remain, count per degree>>
CountPairs == {<<3, 4>>, <<12, 16>>, <<255, 16>>, <<255, 1>>, <<12, 0>>}
UserBytes1 == {0, 129}
UserBytes2 == {5, 127, 255}
UserBytes3 == {5, 133}
PowerBytes == {0, 1, 255}
ThresholdArgs == {-127, -64, -1, 0, 1, 127}
\* contents of the caller's *iHigh, *iLow before DS1820_TemperatureAlarmGet
StalePairs == {<<99, -99>>}
StaleValues == {0, 99}
DivZeroQuotients == {0, -1}

---------------------------------------------------------------------------
(* Bit arithmetic on bytes *)

RECURSIVE BitXor(_, _, _)
BitXor(a, b, n) ==
    IF n = 0 THEN 0
    ELSE (((a % 2) + (b % 2)) % 2) + 2 * BitXor(a \div 2, b \div 2, n - 1)

XorTable == [a \in 0..255 |-> [b \in 0..255 |-> BitXor(a, b, 8)]]

\* One byte pushed through the 1-Wire CRC-8 (x^8 + x^5 + x^4 + 1, reflected).
RECURSIVE CRCBits(_, _, _)
CRCBits(crc, byte, n) ==
    IF n = 0 THEN crc
    ELSE LET mix == (crc + byte) % 2
             shifted == crc \div 2
             next == IF mix = 1 THEN XorTable[shifted][140] ELSE shifted
         IN  CRCBits(next, byte \div 2, n - 1)

CRCTable == [x \in 0..255 |-> CRCBits(0, x, 8)]

OW_CRCCalculate(crc, byte) == CRCTable[XorTable[crc][byte]]

Abs(n) == IF n < 0 THEN -n ELSE n

\* division rounding toward minus infinity instead of toward zero
CDivFloor(n, d) == n \div d

\* C truncating division, d # 0
CDiv(n, d) ==
    IF (n >= 0) = (d > 0) THEN Abs(n) \div Abs(d) ELSE -(Abs(n) \div Abs(d))

\* byte i of a buffer, C indexing
B(buf, i) == buf[i + 1]

---------------------------------------------------------------------------
(* Bus log *)

Ev(name, arg, res) == <<name, arg, res>>

\* Pull-up state after a call: set by the last pull-up primitive in its log.
RECURSIVE PullUpAfter(_, _)
PullUpAfter(before, lg) ==
    IF lg = <<>> THEN before
    ELSE LET e == lg[Len(lg)]
         IN  IF e[1] = "OW_StrongPullUp" THEN "strong"
             ELSE IF e[1] = "OW_WeakPullUp" THEN "weak"
             ELSE PullUpAfter(before, SubSeq(lg, 1, Len(lg) - 1))

\* What a call hands back; fields a call does not touch keep these values.
Blank ==
    [ret |-> 0, log |-> <<>>, iSPad |-> <<>>, argHigh |-> 0, argLow |-> 0,
     iHigh |-> 0, iLow |-> 0, iMaxDevices |-> 0, Addresses |-> <<>>,
     found |-> <<>>, trap |-> FALSE]

\* the opening of a call without the weak pull-up
SelectNoPullUp(addr, sel) == <<Ev("OW_ROMMatch", addr, sel)>>

\* OW_WeakPullUp(); OW_ROMMatch(iAddress): the opening of every addressed call
Select(addr, sel) ==
    <<Ev("OW_WeakPullUp", 0, 0), Ev("OW_ROMMatch", addr, sel)>>

---------------------------------------------------------------------------
(* Internal functions of DS1820.c *)

\* CRC accumulated by ScratchPadRead over Buffer[0..7]
RECURSIVE ScratchPadCRC(_, _)
ScratchPadCRC(buf, n) ==
    IF n = 0 THEN 0
    ELSE OW_CRCCalculate(ScratchPadCRC(buf, n - 1), B(buf, n - 1))

\* ScratchPadRead with its loop one pass short
ScratchPadReadLogShort(wire) ==
    <<Ev("OW_ByteWrite", SCRATCHPAD_READ, 0)>>
    \o [i \in 1..(SCRATCHPAD_LENGTH - 1) |-> Ev("OW_ByteRead", 0, wire[i])]

\* bus activity of ScratchPadRead when the bus delivers the bytes of `wire`
ScratchPadReadLog(wire) ==
    <<Ev("OW_ByteWrite", SCRATCHPAD_READ, 0)>>
    \o [i \in 1..SCRATCHPAD_LENGTH |-> Ev("OW_ByteRead", 0, wire[i])]

\* the comparison of ScratchPadRead inverted
ScratchPadReadInverted(buf) ==
    IF ScratchPadCRC(buf, SCRATCHPAD_CRC_POS) = B(buf, SCRATCHPAD_CRC_POS)
    THEN 1 ELSE 0

\* return value of ScratchPadRead: 0 if the CRC matches, 1 if not
ScratchPadRead(buf) ==
    IF ScratchPadCRC(buf, SCRATCHPAD_CRC_POS) # B(buf, SCRATCHPAD_CRC_POS)
    THEN 1 ELSE 0

\* ScratchPadWrite sending the low threshold first
ScratchPadWriteLowFirst(iThresholdHigh, iThresholdLow) ==
    <<Ev("OW_ByteWrite", SCRATCHPAD_WRITE, 0),
      Ev("OW_ByteWrite", iThresholdLow, 0),
      Ev("OW_ByteWrite", iThresholdHigh, 0)>>

ScratchPadWrite(iThresholdHigh, iThresholdLow) ==
    <<Ev("OW_ByteWrite", SCRATCHPAD_WRITE, 0),
      Ev("OW_ByteWrite", iThresholdHigh, 0),
      Ev("OW_ByteWrite", iThresholdLow, 0)>>

ScratchPadStore == <<Ev("OW_ByteWrite", SCRATCHPAD_STORE, 0)>>

ScratchPadRecall == <<Ev("OW_ByteWrite", SCRATCHPAD_RECALL, 0)>>

\* PowerSupplyType with the two power modes exchanged
PowerSupplyTypeInverted(byte) ==
    [log |-> <<Ev("OW_ByteWrite", POWER_SUPPLY_READ, 0),
               Ev("OW_ByteRead", 0, byte)>>,
     ret |-> IF byte # 0 THEN DS1820_PARASITE_POWER ELSE DS1820_EXTERNAL_POWER]

PowerSupplyType(byte) ==
    [log |-> <<Ev("OW_ByteWrite", POWER_SUPPLY_READ, 0),
               Ev("OW_ByteRead", 0, byte)>>,
     ret |-> IF byte # 0 THEN DS1820_EXTERNAL_POWER ELSE DS1820_PARASITE_POWER]

TemperatureConvert == <<Ev("OW_ByteWrite", CONVERT_T, 0)>>

---------------------------------------------------------------------------
(* Pure computations inlined in the public functions *)

\* DS1820_TemperatureAlarmSet: int threshold -> byte written to the device.
\* (uint8_t) i is i modulo 256; & 0x7F keeps the low seven bits.
AlarmEncode(i) ==
    IF i >= 0 THEN (i % 256) % 128 ELSE 128 + ((i % 256) % 128)

\* DS1820_TemperatureAlarmGet: scratchpad byte -> int threshold
AlarmDecode(byte) ==
    IF (byte \div 128) % 2 = 1 THEN -(byte % 128) ELSE byte % 128

\* scratchpad bytes DS1820_TemperatureAlarmGet decodes into *iHigh and *iLow
AlarmHighByte(buf) == B(buf, 3)

AlarmLowByte(buf) == B(buf, 4)

\* DS1820_TemperatureGet step 1
TemperatureStep1(buf) ==
    IF B(buf, 1) = 0 THEN B(buf, 0) * 500 ELSE B(buf, 0) * (-500)

\* DS1820_TemperatureGet step 2, given the quotient of the inner division
TemperatureStep2(buf, quot) == TemperatureStep1(buf) + (-250 + quot)

\* the inner division of step 2, defined when byte 7 is nonzero
CountQuotient(buf) == CDiv(1000 * (B(buf, 7) - B(buf, 6)), B(buf, 7))

\* the final scaling with one decimal place too many kept
TemperatureFinalTenth(iTemp) == CDiv(iTemp, 10)

\* final value of DS1820_TemperatureGet
TemperatureFinal(iTemp) == CDiv(iTemp, 100)

---------------------------------------------------------------------------
(* Public functions: what one call does, given what the bus answers *)

\* Convert powering the bus up before it issues the command
TemperatureConvertCallPowerFirst(addr, sel) ==
    IF sel = OW_NO_DEV
    THEN [Blank EXCEPT !.ret = DS1820_ERROR, !.log = Select(addr, sel)]
    ELSE [Blank EXCEPT !.ret = DS1820_OK,
                       !.log = Select(addr, sel) \o <<Ev("OW_StrongPullUp", 0, 0)>>
                               \o TemperatureConvert]

\* the selection test of Convert comparing against OW_OK: a miss goes on
TemperatureConvertCallNoMiss(addr, sel) ==
    IF sel = OW_OK
    THEN [Blank EXCEPT !.ret = DS1820_ERROR, !.log = Select(addr, sel)]
    ELSE [Blank EXCEPT !.ret = DS1820_OK,
                       !.log = Select(addr, sel) \o TemperatureConvert
                               \o <<Ev("OW_StrongPullUp", 0, 0)>>]

TemperatureConvertCall(addr, sel) ==
    IF sel = OW_NO_DEV
    THEN [Blank EXCEPT !.ret = DS1820_ERROR, !.log = Select(addr, sel)]
    ELSE [Blank EXCEPT !.ret = DS1820_OK,
                       !.log = Select(addr, sel) \o TemperatureConvert
                               \o <<Ev("OW_StrongPullUp", 0, 0)>>]

\* the error value of the other calls returned by DS1820_TemperatureGet
TemperatureGetNoDeviceAsState == DS1820_ERROR

\* value DS1820_TemperatureGet returns when the device is not selected
TemperatureGetNoDevice == DS1820_TEMP_ERROR

\* The set of outcomes of one call.  With a CRC-valid scratchpad whose byte 7
\* is zero the code divides by zero: the division either traps or yields some
\* quotient, depending on the target.
TemperatureGetCall(addr, sel, wire) ==
    IF sel # 0
    THEN {[Blank EXCEPT !.ret = TemperatureGetNoDevice, !.log = Select(addr, sel)]}
    ELSE LET read == [Blank EXCEPT !.log = Select(addr, sel) \o ScratchPadReadLog(wire),
                                   !.iSPad = wire]
         IN  IF ScratchPadRead(wire) # 0
             THEN {[read EXCEPT !.ret = DS1820_TEMP_ERROR]}
             ELSE IF B(wire, 7) = 0
             THEN {[read EXCEPT !.trap = TRUE]}
                  \cup {[read EXCEPT !.ret = TemperatureFinal(TemperatureStep2(wire, q))]
                        : q \in DivZeroQuotients}
             ELSE {[read EXCEPT !.ret =
                        TemperatureFinal(TemperatureStep2(wire, CountQuotient(wire)))]}

TemperatureAlarmSetCall(addr, sel, high, low) ==
    LET args == [Blank EXCEPT !.argHigh = high, !.argLow = low,
                              !.iHigh = high, !.iLow = low]
    IN  IF sel # 0
        THEN [args EXCEPT !.ret = DS1820_ERROR, !.log = Select(addr, sel)]
        ELSE [args EXCEPT !.ret = DS1820_OK,
                          !.log = Select(addr, sel)
                                  \o ScratchPadWrite(AlarmEncode(high), AlarmEncode(low))]

TemperatureAlarmGetCall(addr, sel, wire, high, low) ==
    LET args == [Blank EXCEPT !.argHigh = high, !.argLow = low,
                              !.iHigh = high, !.iLow = low]
    IN  IF sel # 0
        THEN [args EXCEPT !.ret = DS1820_ERROR, !.log = Select(addr, sel)]
        ELSE LET read == [args EXCEPT !.log = Select(addr, sel) \o ScratchPadReadLog(wire),
                                      !.iSPad = wire]
             IN  IF ScratchPadRead(wire) # 0
                 THEN [read EXCEPT !.ret = DS1820_ERROR]
                 ELSE [read EXCEPT !.ret = DS1820_OK,
                                   !.iHigh = AlarmDecode(AlarmHighByte(wire)),
                                   !.iLow = AlarmDecode(AlarmLowByte(wire))]

ConfigurationStoreCall(addr, sel) ==
    IF sel # 0
    THEN [Blank EXCEPT !.ret = DS1820_ERROR, !.log = Select(addr, sel)]
    ELSE [Blank EXCEPT !.ret = DS1820_OK,
                       !.log = Select(addr, sel) \o ScratchPadStore
                               \o <<Ev("OW_StrongPullUp", 0, 0)>>]

\* Recall powering the bus up like Store does
ConfigurationRecallCallPowered(addr, sel) ==
    IF sel # 0
    THEN [Blank EXCEPT !.ret = DS1820_ERROR, !.log = Select(addr, sel)]
    ELSE [Blank EXCEPT !.ret = DS1820_OK,
                       !.log = Select(addr, sel) \o ScratchPadRecall
                               \o <<Ev("OW_StrongPullUp", 0, 0)>>]

ConfigurationRecallCall(addr, sel) ==
    IF sel # 0
    THEN [Blank EXCEPT !.ret = DS1820_ERROR, !.log = Select(addr, sel)]
    ELSE [Blank EXCEPT !.ret = DS1820_OK,
                       !.log = Select(addr, sel) \o ScratchPadRecall]

\* PowerTypeGet going on without looking at the selection result
PowerTypeGetCallNoCheck(addr, sel, byte) ==
    [Blank EXCEPT !.ret = PowerSupplyType(byte).ret,
                  !.log = Select(addr, sel) \o PowerSupplyType(byte).log]

PowerTypeGetCall(addr, sel, byte) ==
    IF sel # 0
    THEN [Blank EXCEPT !.ret = DS1820_ERROR, !.log = Select(addr, sel)]
    ELSE [Blank EXCEPT !.ret = PowerSupplyType(byte).ret,
                       !.log = Select(addr, sel) \o PowerSupplyType(byte).log]

\* the loop of DS1820_Search filling one slot more than asked for
RECURSIVE SearchLoopOneMore(_, _, _, _, _, _)
SearchLoopOneMore(addr, iCount, arr, rest, max, lg) ==
    IF addr # 0 /\ iCount <= max
    THEN LET next == IF rest = <<>> THEN 0 ELSE Head(rest)
             left == IF rest = <<>> THEN <<>> ELSE Tail(rest)
         IN  SearchLoopOneMore(next, iCount + 1, [arr EXCEPT ![iCount + 1] = addr],
                               left, max, Append(lg, Ev("OW_SearchNext", 0, next)))
    ELSE [iCount |-> iCount, arr |-> arr, log |-> lg]

\* the loop of DS1820_Search storing the address fetched next, not the current
RECURSIVE SearchLoopStoreNext(_, _, _, _, _, _)
SearchLoopStoreNext(addr, iCount, arr, rest, max, lg) ==
    IF addr # 0 /\ iCount < max
    THEN LET next == IF rest = <<>> THEN 0 ELSE Head(rest)
             left == IF rest = <<>> THEN <<>> ELSE Tail(rest)
         IN  SearchLoopStoreNext(next, iCount + 1, [arr EXCEPT ![iCount + 1] = next],
                                 left, max, Append(lg, Ev("OW_SearchNext", 0, next)))
    ELSE [iCount |-> iCount, arr |-> arr, log |-> lg]

\* The while loop of DS1820_Search.  `rest` holds the addresses the bus search
\* has not reported yet; OW_SearchNext reports the next one, or 0 for none.
RECURSIVE SearchLoop(_, _, _, _, _, _)
SearchLoop(addr, iCount, arr, rest, max, lg) ==
    IF addr # 0 /\ iCount < max
    THEN LET next == IF rest = <<>> THEN 0 ELSE Head(rest)
             left == IF rest = <<>> THEN <<>> ELSE Tail(rest)
         IN  SearchLoop(next, iCount + 1, [arr EXCEPT ![iCount + 1] = addr],
                        left, max, Append(lg, Ev("OW_SearchNext", 0, next)))
    ELSE [iCount |-> iCount, arr |-> arr, log |-> lg]

SearchCall(arr, max, found) ==
    LET first == IF found = <<>> THEN 0 ELSE Head(found)
        left == IF found = <<>> THEN <<>> ELSE Tail(found)
        loop == SearchLoop(first, 0, arr, left, max,
                           <<Ev("OW_WeakPullUp", 0, 0), Ev("OW_SearchFirst", 0, first)>>)
    IN  [Blank EXCEPT !.ret = loop.iCount,
                      !.log = Append(loop.log, Ev("OW_Reset", 0, 0)),
                      !.iMaxDevices = max,
                      !.Addresses = loop.arr,
                      !.found = found]

---------------------------------------------------------------------------
(* What the bus can deliver *)

\* the first eight scratchpad bytes a device may hold
PadBodies ==
    {<<b0, b1, 75, 70, 127, 255, c[1], c[2]>> :
        b0 \in TempLSBs, b1 \in TempMSBs, c \in CountPairs}
    \cup {<<145, 1, b2, b3, b4, 255, 12, 16>> :
        b2 \in UserBytes1, b3 \in UserBytes2, b4 \in UserBytes3}
    \cup {[i \in 1..8 |-> 0], [i \in 1..8 |-> 255]}

\* nine bytes as read off the wire: intact, or with the CRC byte corrupted
WirePads ==
    {Append(p, ScratchPadCRC(p, 8)) : p \in PadBodies}
    \cup {Append(p, XorTable[ScratchPadCRC(p, 8)][1]) : p \in PadBodies}

\* the bytes a read gets to see: none unless the device was selected
Delivered(sel) == IF sel = OW_OK THEN WirePads ELSE {<<>>}

\* address sequences the bus search can enumerate: distinct, nonzero
SearchResults ==
    {f \in UNION {[1..n -> ROMIds] : n \in 0..MaxBusDevices} :
        \A i, j \in DOMAIN f : i # j => f[i] # f[j]}

\* the caller's array before a search
StaleArrays == {[i \in 1..MaxCount |-> v] : v \in StaleValues}

---------------------------------------------------------------------------
(* State machine *)

\* no code is running step by step
NoFrame == [iCount |-> 0, iAddress |-> 0, rest |-> <<>>]

\* DS1820_Init: OW_Init(); OW_Reset().  The pull-up state the driver starts
\* in is not fixed by the library.
Init ==
    /\ pullUp \in {"weak", "strong"}
    /\ op = "Init"
    /\ iAddress = 0
    /\ ret = 0
    /\ log = <<Ev("OW_Init", 0, 0), Ev("OW_Reset", 0, 0)>>
    /\ iSPad = <<>>
    /\ argHigh = 0
    /\ argLow = 0
    /\ iHigh = 0
    /\ iLow = 0
    /\ iMaxDevices = 0
    /\ Addresses = <<>>
    /\ enumerated = <<>>
    /\ halted = FALSE
    /\ pc = "return"
    /\ frame = NoFrame

\* The call `name` on `addr` ran with outcome r.
Return(name, addr, r) ==
    /\ op' = name
    /\ iAddress' = addr
    /\ ret' = IF r.trap THEN ret ELSE r.ret
    /\ log' = r.log
    /\ pullUp' = PullUpAfter(pullUp, r.log)
    /\ iSPad' = r.iSPad
    /\ argHigh' = r.argHigh
    /\ argLow' = r.argLow
    /\ iHigh' = r.iHigh
    /\ iLow' = r.iLow
    /\ iMaxDevices' = r.iMaxDevices
    /\ Addresses' = r.Addresses
    /\ enumerated' = r.found
    /\ halted' = r.trap

DS1820_TemperatureConvert ==
    /\ ~halted
    /\ UNCHANGED <<pc, frame>>
    /\ \E addr \in AddressArgs, sel \in ROMMatchResults :
           Return("TemperatureConvert", addr, TemperatureConvertCall(addr, sel))

DS1820_TemperatureGet ==
    /\ ~halted
    /\ UNCHANGED <<pc, frame>>
    /\ \E addr \in AddressArgs, sel \in ROMMatchResults :
           \E wire \in Delivered(sel) :
               \E r \in TemperatureGetCall(addr, sel, wire) :
                   Return("TemperatureGet", addr, r)

DS1820_TemperatureAlarmSet ==
    /\ ~halted
    /\ UNCHANGED <<pc, frame>>
    /\ \E addr \in AddressArgs, sel \in ROMMatchResults,
          high \in ThresholdArgs, low \in ThresholdArgs :
           Return("TemperatureAlarmSet", addr,
                  TemperatureAlarmSetCall(addr, sel, high, low))

DS1820_TemperatureAlarmGet ==
    /\ ~halted
    /\ UNCHANGED <<pc, frame>>
    /\ \E addr \in AddressArgs, sel \in ROMMatchResults, old \in StalePairs :
           \E wire \in Delivered(sel) :
               Return("TemperatureAlarmGet", addr,
                      TemperatureAlarmGetCall(addr, sel, wire, old[1], old[2]))

DS1820_ConfigurationStore ==
    /\ ~halted
    /\ UNCHANGED <<pc, frame>>
    /\ \E addr \in AddressArgs, sel \in ROMMatchResults :
           Return("ConfigurationStore", addr, ConfigurationStoreCall(addr, sel))

DS1820_ConfigurationRecall ==
    /\ ~halted
    /\ UNCHANGED <<pc, frame>>
    /\ \E addr \in AddressArgs, sel \in ROMMatchResults :
           Return("ConfigurationRecall", addr, ConfigurationRecallCall(addr, sel))

DS1820_PowerTypeGet ==
    /\ ~halted
    /\ UNCHANGED <<pc, frame>>
    /\ \E addr \in AddressArgs, sel \in ROMMatchResults, byte \in PowerBytes :
           Return("PowerTypeGet", addr, PowerTypeGetCall(addr, sel, byte))

DS1820_Search ==
    /\ ~halted
    /\ UNCHANGED <<pc, frame>>
    /\ \E arr \in StaleArrays, max \in 0..MaxCount, found \in SearchResults :
           Return("Search", 0, SearchCall(arr, max, found))

Next ==
    \/ DS1820_TemperatureConvert
    \/ DS1820_TemperatureGet
    \/ DS1820_TemperatureAlarmSet
    \/ DS1820_TemperatureAlarmGet
    \/ DS1820_ConfigurationStore
    \/ DS1820_ConfigurationRecall
    \/ DS1820_PowerTypeGet
    \/ DS1820_Search

Spec == Init /\ [][Next]_vars

---------------------------------------------------------------------------
(* DS1820_Search statement by statement *)

\* the call is entered: arguments and what the bus will enumerate are fixed
Search_Enter ==
    /\ pc = "return"
    /\ \E arr \in StaleArrays, max \in 0..MaxCount, reported \in SearchResults :
           /\ iMaxDevices' = max
           /\ Addresses' = arr
           /\ enumerated' = reported
           /\ frame' = [iCount |-> 0, iAddress |-> 0, rest |-> reported]
    /\ op' = "Search"
    /\ log' = <<>>
    /\ pc' = "first"
    /\ iAddress' = 0
    /\ iSPad' = <<>>
    /\ argHigh' = 0 /\ argLow' = 0 /\ iHigh' = 0 /\ iLow' = 0
    /\ UNCHANGED <<pullUp, ret, halted>>

\* the exit of DS1820_Search returning without the bus reset
Search_ExitNoReset ==
    /\ pc = "loop"
    /\ ~(frame.iAddress # 0 /\ frame.iCount < iMaxDevices)
    /\ ret' = frame.iCount
    /\ pc' = "return"
    /\ UNCHANGED <<pullUp, op, iAddress, log, iSPad, argHigh, argLow, iHigh, iLow,
                   iMaxDevices, Addresses, enumerated, halted, frame>>

\* OW_WeakPullUp(); iAddress = OW_SearchFirst(0);
Search_First ==
    /\ pc = "first"
    /\ LET first == IF frame.rest = <<>> THEN 0 ELSE Head(frame.rest)
           left == IF frame.rest = <<>> THEN <<>> ELSE Tail(frame.rest)
       IN  /\ log' = log \o <<Ev("OW_WeakPullUp", 0, 0), Ev("OW_SearchFirst", 0, first)>>
           /\ frame' = [frame EXCEPT !.iAddress = first, !.rest = left]
    /\ pullUp' = "weak"
    /\ pc' = "loop"
    /\ UNCHANGED <<op, iAddress, ret, iSPad, argHigh, argLow, iHigh, iLow,
                   iMaxDevices, Addresses, enumerated, halted>>

\* one pass through the body of the while loop
Search_Loop ==
    /\ pc = "loop"
    /\ frame.iAddress # 0 /\ frame.iCount < iMaxDevices
    /\ LET next == IF frame.rest = <<>> THEN 0 ELSE Head(frame.rest)
           left == IF frame.rest = <<>> THEN <<>> ELSE Tail(frame.rest)
       IN  /\ Addresses' = [Addresses EXCEPT ![frame.iCount + 1] = frame.iAddress]
           /\ log' = Append(log, Ev("OW_SearchNext", 0, next))
           /\ frame' = [frame EXCEPT !.iCount = frame.iCount + 1,
                                     !.iAddress = next, !.rest = left]
    /\ UNCHANGED <<pullUp, op, iAddress, ret, iSPad, argHigh, argLow, iHigh, iLow,
                   iMaxDevices, enumerated, halted, pc>>

\* the loop condition fails: OW_Reset(); return iCount;
Search_Exit ==
    /\ pc = "loop"
    /\ ~(frame.iAddress # 0 /\ frame.iCount < iMaxDevices)
    /\ log' = Append(log, Ev("OW_Reset", 0, 0))
    /\ ret' = frame.iCount
    /\ pc' = "return"
    /\ UNCHANGED <<pullUp, op, iAddress, iSPad, argHigh, argLow, iHigh, iLow,
                   iMaxDevices, Addresses, enumerated, halted, frame>>

SearchNext ==
    \/ Search_Enter
    \/ Search_First
    \/ Search_Loop
    \/ Search_Exit

\* Once entered the function runs on: the bus primitives return, nothing
\* else can hold a statement back.
SearchSpec ==
    /\ Init
    /\ [][SearchNext]_vars
    /\ WF_vars(Search_First)
    /\ WF_vars(Search_Loop)
    /\ WF_vars(Search_Exit)

---------------------------------------------------------------------------
(* main of Example_DS1820.c statement by statement *)

MAX_DEVICES == 8
MAX_RETRIES == 2

\* scratchpads the sensors of the example hold: a reading of 25.0 degrees
\* and one whose COUNT_PER_C byte is zero
ExamplePadBodies ==
    {<<50, 0, 75, 70, 127, 255, 12, 16>>, <<200, 0, 75, 70, 127, 255, 12, 0>>}

\* what a read of the example sees on the wire: nothing without selection,
\* else a scratchpad, intact or with its CRC byte corrupted
ExampleDelivered(sel) ==
    IF sel = OW_OK
    THEN {Append(p, ScratchPadCRC(p, 8)) : p \in ExamplePadBodies}
         \cup {Append(p, XorTable[ScratchPadCRC(p, 8)][1]) : p \in ExamplePadBodies}
    ELSE {<<>>}

\* the variables of main before its first statement; iDevCount and
\* Temperature are file-scope objects, zero until assigned; `cycle` lists the
\* library calls of the current pass of the main loop with their results
MainFrame ==
    [i |-> 0, iRetry |-> 0, iDevCount |-> 0,
     Address |-> [k \in 1..MAX_DEVICES |-> 99],
     Temperature |-> [k \in 1..MAX_DEVICES |-> 0],
     cycle |-> <<>>,
     printed |-> <<>>]

\* lines 31: DS1820_Init() has run, main is about to search
ExampleInit ==
    /\ pullUp \in {"weak", "strong"}
    /\ op = "Init"
    /\ iAddress = 0
    /\ ret = 0
    /\ log = <<Ev("OW_Init", 0, 0), Ev("OW_Reset", 0, 0)>>
    /\ iSPad = <<>>
    /\ argHigh = 0
    /\ argLow = 0
    /\ iHigh = 0
    /\ iLow = 0
    /\ iMaxDevices = 0
    /\ Addresses = <<>>
    /\ enumerated = <<>>
    /\ halted = FALSE
    /\ pc = "search"
    /\ frame = MainFrame

\* a statement of main that calls nothing
NoCall ==
    UNCHANGED <<pullUp, op, iAddress, ret, log, iSPad, argHigh, argLow,
                iHigh, iLow, iMaxDevices, Addresses, enumerated, halted>>

\* lines 34-38: do { iDevCount = DS1820_Search(Address, MAX_DEVICES); }
\* while (iDevCount <= 0);
Main_Search ==
    /\ pc = "search"
    /\ ~halted
    /\ \E reported \in SearchResults :
           LET r == SearchCall(frame.Address, MAX_DEVICES, reported)
           IN  /\ Return("Search", 0, r)
               /\ frame' = [frame EXCEPT !.iDevCount = r.ret,
                                         !.Address = r.Addresses]
               /\ pc' = IF r.ret <= 0 THEN "search" ELSE "convert"

\* lines 43-54: DS1820_TemperatureConvert(DS1820_ADDRESS_ALL), its result
\* dropped; i = 0
Main_Convert ==
    /\ pc = "convert"
    /\ ~halted
    /\ \E sel \in ROMMatchResults :
           LET r == TemperatureConvertCall(DS1820_ADDRESS_ALL, sel)
           IN  /\ Return("TemperatureConvert", DS1820_ADDRESS_ALL, r)
               /\ frame' = [frame EXCEPT
                                !.i = 0,
                                !.cycle = <<<<"Convert", DS1820_ADDRESS_ALL, r.ret>>>>]
               /\ pc' = "for"

\* lines 54-55: i < iDevCount; iRetry = 0
Main_For ==
    /\ pc = "for"
    /\ ~halted
    /\ NoCall
    /\ IF frame.i < frame.iDevCount
       THEN /\ frame' = [frame EXCEPT !.iRetry = 0]
            /\ pc' = "get"
       ELSE /\ frame' = frame
            /\ pc' = "print"

\* lines 57-58: Temperature[i] = DS1820_TemperatureGet(Address[i]); iRetry++
Main_Get ==
    /\ pc = "get"
    /\ ~halted
    /\ \E sel \in ROMMatchResults :
           \E wire \in ExampleDelivered(sel) :
               \E r \in TemperatureGetCall(frame.Address[frame.i + 1], sel, wire) :
                   /\ Return("TemperatureGet", frame.Address[frame.i + 1], r)
                   /\ IF r.trap
                      THEN /\ frame' = frame
                           /\ pc' = "get"
                      ELSE /\ frame' = [frame EXCEPT
                                  !.Temperature[frame.i + 1] = r.ret,
                                  !.iRetry = frame.iRetry + 1,
                                  !.cycle = Append(frame.cycle,
                                                   <<"Get", frame.i, r.ret>>)]
                           /\ pc' = "while"

\* the retry test letting one attempt more through
Main_WhileOneMore ==
    /\ pc = "while"
    /\ ~halted
    /\ NoCall
    /\ IF frame.Temperature[frame.i + 1] = DS1820_TEMP_ERROR
          /\ frame.iRetry <= MAX_RETRIES
       THEN /\ frame' = frame
            /\ pc' = "get"
       ELSE /\ frame' = [frame EXCEPT !.i = frame.i + 1]
            /\ pc' = "for"

\* lines 59, 54: while ((Temperature[i] == DS1820_TEMP_ERROR) &&
\* (iRetry < MAX_RETRIES)); i++
Main_While ==
    /\ pc = "while"
    /\ ~halted
    /\ NoCall
    /\ IF frame.Temperature[frame.i + 1] = DS1820_TEMP_ERROR
          /\ frame.iRetry < MAX_RETRIES
       THEN /\ frame' = frame
            /\ pc' = "get"
       ELSE /\ frame' = [frame EXCEPT !.i = frame.i + 1]
            /\ pc' = "for"

\* C remainder, with the sign of the dividend
CRem(a, b) == a - b * CDiv(a, b)

\* lines 63-70: one field per device, "---.-" for the sentinel, else the
\* value split by / 10 and % 10
Main_Print ==
    /\ pc = "print"
    /\ ~halted
    /\ NoCall
    /\ frame' = [frame EXCEPT
           !.printed =
               [k \in 1..frame.iDevCount |->
                   IF frame.Temperature[k] = DS1820_TEMP_ERROR
                   THEN [dashes |-> TRUE, whole |-> 0, tenth |-> 0]
                   ELSE [dashes |-> FALSE,
                         whole |-> CDiv(frame.Temperature[k], 10),
                         tenth |-> CRem(frame.Temperature[k], 10)]]]
    /\ pc' = "convert"

ExampleNext ==
    \/ Main_Search
    \/ Main_Convert
    \/ Main_For
    \/ Main_Get
    \/ Main_While
    \/ Main_Print

\* main is one sequential program: while a statement can run, one does
ExampleSpec ==
    /\ ExampleInit
    /\ [][ExampleNext]_vars
    /\ WF_vars(ExampleNext)

---------------------------------------------------------------------------
(* Reading the record of the last call *)

Invoked(name) == \E i \in DOMAIN log : log[i][1] = name

InvokedTimes(name) == Cardinality({i \in DOMAIN log : log[i][1] = name})

Wrote(byte) == \E i \in DOMAIN log : log[i][1] = "OW_ByteWrite" /\ log[i][2] = byte

SelectFailed == \E i \in DOMAIN log : log[i][1] = "OW_ROMMatch" /\ log[i][3] # OW_OK

Selected == \E i \in DOMAIN log : log[i][1] = "OW_ROMMatch" /\ log[i][3] = OW_OK

\* the call read a whole scratchpad
PadRead == Len(iSPad) = SCRATCHPAD_LENGTH

\* byte [8] of the scratchpad read equals the CRC-8 of bytes [0..7]
PadCRCValid == PadRead /\ B(iSPad, 8) = ScratchPadCRC(iSPad, 8)

PadCRCBroken == PadRead /\ B(iSPad, 8) # ScratchPadCRC(iSPad, 8)

\* the bytes a successful AlarmSet put on the bus after the write command
WrittenHigh == log[4][2]

WrittenLow == log[5][2]

\* q is n / d rounded toward zero
IsTruncQuot(q, n, d) ==
    LET r == n - q * d
    IN  /\ Abs(r) < Abs(d)
        /\ r = 0 \/ ((r > 0) = (n > 0))

---------------------------------------------------------------------------
(* Claims *)

\* C1: Convert on an absent device returns DS1820_ERROR, does not switch the
\* bus to strong pull-up (the bus is left in weak pull-up) and writes no
\* start-conversion command byte.
C1_ConvertAbsentDevice ==
    (op = "TemperatureConvert" /\ SelectFailed) =>
        /\ ret = DS1820_ERROR
        /\ ~Invoked("OW_StrongPullUp")
        /\ pullUp = "weak"
        /\ ~Wrote(CONVERT_T)

C1_Witness ==
    /\ op = "TemperatureConvert"
    /\ SelectFailed
    /\ ret = DS1820_ERROR
    /\ log = Select(iAddress, OW_NO_DEV)

\* C2: a scratchpad whose byte [8] differs from the CRC-8 over bytes [0..7]
\* is rejected and none of its bytes is used: GetTemperature returns the
\* sentinel, GetAlarmThresholds returns the error result and leaves the
\* caller's thresholds as they were.
C2_CrcMismatchRejected ==
    PadCRCBroken =>
        /\ ~halted
        /\ op = "TemperatureGet" => ret = DS1820_TEMP_ERROR
        /\ op = "TemperatureAlarmGet" =>
               ret = DS1820_ERROR /\ iHigh = argHigh /\ iLow = argLow

C2_Witness ==
    /\ op = "TemperatureAlarmGet"
    /\ PadCRCBroken
    /\ ret = DS1820_ERROR
    /\ AlarmDecode(AlarmHighByte(iSPad)) # argHigh
    /\ iHigh = argHigh

\* C3: GetTemperature returns the same sentinel, DS1820_TEMP_ERROR, when
\* device selection fails and when the scratchpad CRC check fails.
C3_SameSentinel ==
    op = "TemperatureGet" =>
        /\ SelectFailed => ret = DS1820_TEMP_ERROR
        /\ (Selected /\ PadCRCBroken) => ret = DS1820_TEMP_ERROR

C3_Witness ==
    /\ op = "TemperatureGet"
    /\ SelectFailed
    /\ ~PadRead
    /\ ret = DS1820_TEMP_ERROR

\* C4: with a CRC-valid scratchpad whose count-per-degree byte [7] is zero,
\* GetTemperature does not divide: it returns the sentinel.
C4_ZeroCountPerDegree ==
    (op = "TemperatureGet" /\ PadCRCValid /\ B(iSPad, 7) = 0) =>
        ~halted /\ ret = DS1820_TEMP_ERROR

\* C5: alarm threshold round trip: for every threshold d in [-127, 127] that
\* SetAlarmThresholds encoded, decoding the byte it wrote yields d again.
C5_AlarmRoundTrip ==
    (op = "TemperatureAlarmSet" /\ ret = DS1820_OK) =>
        /\ argHigh \in -127..127 => AlarmDecode(WrittenHigh) = argHigh
        /\ argLow \in -127..127 => AlarmDecode(WrittenLow) = argLow

\* C6: the threshold encoder produces the sign-magnitude boundary bytes:
\* 0 -> 0x00, -1 -> 0x81, 127 -> 0x7F, -127 -> 0xFF.
C6_EncodeBoundaries ==
    (op = "TemperatureAlarmSet" /\ ret = DS1820_OK) =>
        /\ argHigh = 0 => WrittenHigh = 0
        /\ argHigh = -1 => WrittenHigh = 129
        /\ argHigh = 127 => WrittenHigh = 127
        /\ argHigh = -127 => WrittenHigh = 255

\* C7: for a CRC-valid scratchpad with byte [7] # 0, GetTemperature returns
\* T / 100 rounded toward zero, T = s * 500 * byte[0] - 250 + q, where
\* s = +1 if byte [1] = 0 and -1 otherwise, and q is
\* 1000 * (byte[7] - byte[6]) / byte[7] rounded toward zero.
C7_TemperatureFormula ==
    (op = "TemperatureGet" /\ PadCRCValid /\ B(iSPad, 7) # 0) =>
        LET num == 1000 * (B(iSPad, 7) - B(iSPad, 6))
            s == IF B(iSPad, 1) = 0 THEN 1 ELSE -1
            low == num \div B(iSPad, 7)
        IN  /\ ~halted
            /\ \E q \in low..(low + 1) :
                   /\ IsTruncQuot(q, num, B(iSPad, 7))
                   /\ IsTruncQuot(ret, s * 500 * B(iSPad, 0) + (-250) + q, 100)

C7_Witness ==
    /\ op = "TemperatureGet"
    /\ PadCRCValid
    /\ B(iSPad, 7) # 0
    /\ B(iSPad, 6) > B(iSPad, 7)
    /\ (1000 * (B(iSPad, 7) - B(iSPad, 6))) % B(iSPad, 7) # 0
    /\ B(iSPad, 1) # 0
    /\ ret < 0

\* Over all byte values: the quotient of step 2 lies in [-254000, 1000] and
\* step 1 in [-127500, 127500], so the value before the final scaling is
\* never below -381750.
DecodeRangeAllBytes ==
    /\ \A b6 \in 0..255, b7 \in 1..255 :
           CDiv(1000 * (b7 - b6), b7) \in (-254000)..1000
    /\ \A b0 \in 0..255 : 500 * b0 \in 0..127500 /\ (-500) * b0 \in (-127500)..0
    /\ CDiv(-127500 + (-250) + (-254000), 100) > DS1820_TEMP_ERROR

\* C8: the failure sentinel is never a decoded measurement: the value
\* GetTemperature computes from a CRC-valid scratchpad with byte [7] # 0
\* differs from DS1820_TEMP_ERROR.
C8_SentinelNeverDecoded ==
    /\ DecodeRangeAllBytes
    /\ (op = "TemperatureGet" /\ PadCRCValid /\ B(iSPad, 7) # 0) =>
           ~halted /\ ret # DS1820_TEMP_ERROR

C8_Witness ==
    /\ op = "TemperatureGet"
    /\ PadCRCValid
    /\ B(iSPad, 0) = 255 /\ B(iSPad, 1) # 0
    /\ B(iSPad, 6) = 255 /\ B(iSPad, 7) = 1
    /\ ret = -3817

\* C9: GetAlarmThresholds returns as the high threshold the sign-magnitude
\* decoding of scratchpad byte [2] of the CRC-valid scratchpad it read.
C9_HighFromByte2 ==
    (op = "TemperatureAlarmGet" /\ ret = DS1820_OK) =>
        iHigh = AlarmDecode(B(iSPad, 2))

\* C10 (as stated): Search with maxCount = 0 returns count 0, stores no
\* address and invokes neither the find-first nor the find-next primitive.
C10_NoSearchActivity ==
    (op = "Search" /\ iMaxDevices = 0) =>
        /\ ret = 0
        /\ Addresses \in StaleArrays
        /\ ~Invoked("OW_SearchFirst")
        /\ ~Invoked("OW_SearchNext")

\* C10 (amended): Search with maxCount = 0 returns count 0 and stores no
\* address; between setting weak pull-up and the final reset it invokes
\* find-first exactly once, discards what it reports, and invokes neither
\* find-next nor a byte read or write.
C10_FindFirstOnly ==
    (op = "Search" /\ iMaxDevices = 0) =>
        /\ ret = 0
        /\ Addresses \in StaleArrays
        /\ Len(log) = 3
        /\ log[1] = Ev("OW_WeakPullUp", 0, 0)
        /\ log[2][1] = "OW_SearchFirst"
        /\ log[3] = Ev("OW_Reset", 0, 0)

C10_Witness ==
    /\ op = "Search"
    /\ iMaxDevices = 0
    /\ InvokedTimes("OW_SearchFirst") = 1
    /\ \E i \in DOMAIN log : log[i][1] = "OW_SearchFirst" /\ log[i][3] # 0
    /\ ret = 0

Min(a, b) == IF a < b THEN a ELSE b

\* the caller's array was filled with one stale value v before the search
\* and still holds v at every index from `from` on (C indexing)
StaleFrom(from) ==
    \E v \in StaleValues : \A i \in DOMAIN Addresses : i - 1 >= from => Addresses[i] = v

\* C11: for a bus that enumerates a1..an and any maxCount >= 0, Search
\* returns count = min(n, maxCount), stores exactly a1..a_count in that order
\* at indices 0..count-1 and writes no index >= maxCount (nor any >= count).
C11_SearchStoresPrefix ==
    op = "Search" =>
        /\ ret = Min(Len(enumerated), iMaxDevices)
        /\ \A i \in 1..ret : Addresses[i] = enumerated[i]
        /\ StaleFrom(ret)
        /\ StaleFrom(iMaxDevices)

C11_Witness ==
    /\ op = "Search"
    /\ Len(enumerated) = 2
    /\ iMaxDevices = 1
    /\ ret = 1
    /\ Addresses[1] = enumerated[1]
    /\ Addresses[2] = 99

LastIsReset == log # <<>> /\ log[Len(log)] = Ev("OW_Reset", 0, 0)

\* C12: every Search call terminates and its last bus action is a bus
\* reset, whatever the outcome (no device, fewer than maxCount, maxCount).
C12_SearchEndsWithReset ==
    /\ [](pc = "first" => <>(pc = "return" /\ op = "Search" /\ LastIsReset))
    /\ []((pc = "return" /\ op = "Search") =>
              LastIsReset /\ InvokedTimes("OW_Reset") = 1)

C12_Witness ==
    /\ pc = "return"
    /\ op = "Search"
    /\ LastIsReset
    /\ ret = iMaxDevices
    /\ ret > 0
    /\ Len(enumerated) > ret

\* C13: a successful Convert sets weak pull-up, selects the device, writes
\* the start-conversion command byte 0x44 and sets strong pull-up, in this
\* order and nothing else (no wait); it returns OK with the bus in strong
\* pull-up.
C13_ConvertSequence ==
    (op = "TemperatureConvert" /\ Selected) =>
        /\ ret = DS1820_OK
        /\ log = <<Ev("OW_WeakPullUp", 0, 0), Ev("OW_ROMMatch", iAddress, OW_OK),
                   Ev("OW_ByteWrite", 68, 0), Ev("OW_StrongPullUp", 0, 0)>>
        /\ pullUp = "strong"

C13_Witness ==
    /\ op = "TemperatureConvert"
    /\ ret = DS1820_OK
    /\ iAddress = DS1820_ADDRESS_ALL
    /\ Len(log) = 4
    /\ pullUp = "strong"

\* C14 (as stated): StoreConfig only issues the store command and leaves it
\* to the caller to put the bus in strong pull-up; RecallConfig writes the
\* single recall command byte and leaves the bus in weak pull-up.
C14_StoreLeavesPullUpToCaller ==
    /\ (op = "ConfigurationStore" /\ ret = DS1820_OK) =>
           /\ log = Select(iAddress, OW_OK) \o <<Ev("OW_ByteWrite", 72, 0)>>
           /\ ~Invoked("OW_StrongPullUp")
    /\ (op = "ConfigurationRecall" /\ ret = DS1820_OK) =>
           /\ log = Select(iAddress, OW_OK) \o <<Ev("OW_ByteWrite", 184, 0)>>
           /\ pullUp = "weak"

\* C14 (amended): StoreConfig writes the single store command byte and then
\* itself switches the bus to strong pull-up, returning at once with the bus
\* in that state (holding it is left to the caller); RecallConfig writes the
\* single recall command byte and leaves the bus in weak pull-up.
C14_StoreSetsStrongPullUp ==
    /\ (op = "ConfigurationStore" /\ Selected) =>
           /\ ret = DS1820_OK
           /\ log = Select(iAddress, OW_OK)
                    \o <<Ev("OW_ByteWrite", 72, 0), Ev("OW_StrongPullUp", 0, 0)>>
           /\ pullUp = "strong"
    /\ (op = "ConfigurationRecall" /\ Selected) =>
           /\ ret = DS1820_OK
           /\ log = Select(iAddress, OW_OK) \o <<Ev("OW_ByteWrite", 184, 0)>>
           /\ pullUp = "weak"

C14_Witness ==
    /\ op = "ConfigurationStore"
    /\ ret = DS1820_OK
    /\ Wrote(SCRATCHPAD_STORE)
    /\ Invoked("OW_StrongPullUp")
    /\ pullUp = "strong"

\* C15: a successful SetAlarmThresholds writes exactly three bytes after
\* selection: the write-scratchpad command 0x4E, the encoded high threshold,
\* the encoded low threshold, in this order; it reads no byte.
C15_AlarmSetWrites ==
    (op = "TemperatureAlarmSet" /\ Selected) =>
        /\ ret = DS1820_OK
        /\ Len(log) = 5
        /\ SubSeq(log, 1, 2) = Select(iAddress, OW_OK)
        /\ log[3] = Ev("OW_ByteWrite", 78, 0)
        /\ log[4] = Ev("OW_ByteWrite", AlarmEncode(argHigh), 0)
        /\ log[5] = Ev("OW_ByteWrite", AlarmEncode(argLow), 0)
        /\ ~Invoked("OW_ByteRead")

C15_Witness ==
    /\ op = "TemperatureAlarmSet"
    /\ ret = DS1820_OK
    /\ argHigh = 127 /\ argLow = -64
    /\ InvokedTimes("OW_ByteWrite") = 3
    /\ WrittenHigh = 127 /\ WrittenLow = 192

\* C16: GetPowerMode on a present device writes the power-read command and
\* maps the byte read back: zero is Parasite, nonzero is External; on an
\* absent device it returns the error result, distinct from both modes.
C16_PowerMode ==
    op = "PowerTypeGet" =>
        /\ Selected =>
               /\ Len(log) = 4
               /\ log[3] = Ev("OW_ByteWrite", 180, 0)
               /\ log[4][1] = "OW_ByteRead"
               /\ log[4][3] = 0 => ret = DS1820_PARASITE_POWER
               /\ log[4][3] # 0 => ret = DS1820_EXTERNAL_POWER
        /\ SelectFailed =>
               /\ ret = DS1820_ERROR
               /\ ret \notin {DS1820_PARASITE_POWER, DS1820_EXTERNAL_POWER}

C16_Witness ==
    /\ op = "PowerTypeGet"
    /\ Selected
    /\ \E i \in DOMAIN log : log[i][1] = "OW_ByteRead" /\ log[i][3] = 255
    /\ ret = DS1820_EXTERNAL_POWER

\* C17: a GetTemperature or GetAlarmThresholds call selects at most once,
\* writes the read-scratchpad command at most once and reads exactly 9 bytes
\* in order when selection succeeds (none when it fails), also when the CRC
\* check fails.
C17_NoInternalRetry ==
    op \in {"TemperatureGet", "TemperatureAlarmGet"} =>
        /\ InvokedTimes("OW_ROMMatch") = 1
        /\ InvokedTimes("OW_WeakPullUp") = 1
        /\ SelectFailed => ~Invoked("OW_ByteWrite") /\ ~Invoked("OW_ByteRead")
        /\ Selected =>
               /\ InvokedTimes("OW_ByteWrite") = 1
               /\ log[3] = Ev("OW_ByteWrite", 190, 0)
               /\ InvokedTimes("OW_ByteRead") = 9
               /\ PadRead
               /\ \A i \in 1..9 : log[3 + i] = Ev("OW_ByteRead", 0, iSPad[i])

C17_Witness ==
    /\ op = "TemperatureGet"
    /\ Selected
    /\ PadCRCBroken
    /\ InvokedTimes("OW_ByteRead") = 9
    /\ InvokedTimes("OW_ROMMatch") = 1

BusTraffic(e) ==
    e[1] \in {"OW_ROMMatch", "OW_SearchFirst", "OW_SearchNext",
              "OW_ByteWrite", "OW_ByteRead"}

\* C19: in any sequence of calls, every device selection, search step and
\* byte write or read of a call happens while the bus is in weak pull-up,
\* whatever state the previous call left the bus in; and the bus is in strong
\* pull-up on return only from a Convert or StoreConfig that returned OK.
C19_TrafficUnderWeakPullUp ==
    /\ [][\A i \in DOMAIN log' :
              BusTraffic(log'[i]) =>
                  PullUpAfter(pullUp, SubSeq(log', 1, i - 1)) = "weak"]_vars
    /\ []((pullUp = "strong" /\ op # "Init") =>
              /\ op \in {"TemperatureConvert", "ConfigurationStore"}
              /\ ret = DS1820_OK)

C19_Witness ==
    /\ op = "ConfigurationStore"
    /\ ret = DS1820_OK
    /\ pullUp = "strong"
    /\ \E i \in DOMAIN log : BusTraffic(log[i]) /\ log[i][1] = "OW_ByteWrite"

AddressedOps ==
    {"TemperatureConvert", "TemperatureGet", "TemperatureAlarmSet",
     "TemperatureAlarmGet", "ConfigurationStore", "ConfigurationRecall",
     "PowerTypeGet"}

\* C20: when device selection fails, every addressed operation returns its
\* error value having written no command byte and read no byte; and when
\* GetAlarmThresholds fails (selection or CRC), the caller's high and low
\* output values are left as they were.
C20_FailedSelectionFrame ==
    /\ (op \in AddressedOps /\ SelectFailed) =>
           /\ ret = IF op = "TemperatureGet" THEN -10000 ELSE 1
           /\ ~Invoked("OW_ByteWrite")
           /\ ~Invoked("OW_ByteRead")
           /\ ~Invoked("OW_StrongPullUp")
    /\ (op = "TemperatureAlarmGet" /\ ret # DS1820_OK) =>
           /\ SelectFailed \/ PadCRCBroken
           /\ iHigh = argHigh
           /\ iLow = argLow

C20_Witness ==
    /\ op = "TemperatureAlarmGet"
    /\ ret = DS1820_ERROR
    /\ SelectFailed
    /\ iHigh = 99 /\ argHigh = 99
    /\ iLow = -99 /\ argLow = -99

\* the positions in the current cycle of the GetTemperature calls for the
\* device at index d
GetIdx(d) ==
    {k \in DOMAIN frame.cycle : frame.cycle[k][1] = "Get" /\ frame.cycle[k][2] = d}

InMain == pc \in {"search", "convert", "for", "get", "while", "print"}

\* C18: in the example's measurement cycle GetTemperature is called at least
\* once and at most 2 times for each discovered device, the retries stop at
\* the first call that returns a non-sentinel value, the stored temperature
\* is the sentinel only if every attempt of the cycle returned the sentinel,
\* and every such read comes after a broadcast Convert of the same cycle.
C18_ExampleRetryLoop ==
    InMain =>
        \A d \in 0..(frame.iDevCount - 1) :
            /\ Cardinality(GetIdx(d)) <= 2
            /\ (d < frame.i /\ pc # "convert") => Cardinality(GetIdx(d)) >= 1
            /\ \A k \in GetIdx(d) :
                   /\ k > 1
                   /\ frame.cycle[1] = <<"Convert", 0, frame.cycle[1][3]>>
                   /\ (\E later \in GetIdx(d) : later > k) =>
                          frame.cycle[k][3] = -10000
            /\ (d < frame.i /\ pc # "convert" /\ frame.Temperature[d + 1] = -10000) =>
                   \A k \in GetIdx(d) : frame.cycle[k][3] = -10000

C18_Witness ==
    /\ pc = "print"
    /\ frame.iDevCount = 2
    /\ Cardinality(GetIdx(0)) = 2
    /\ frame.Temperature[1] = DS1820_TEMP_ERROR
    /\ Cardinality(GetIdx(1)) = 2
    /\ frame.Temperature[2] = 250
    /\ \E k \in GetIdx(1) : frame.cycle[k][3] = DS1820_TEMP_ERROR

====
